---- MODULE Spec2Model ----
(***************************************************************************)
(* Model of the qcm quantum circuit manager: the circuit DAG, the layout   *)
(* pass circuit.FromDAG, and the shot scheduler of simulator.Simulator.    *)
(*                                                                         *)
(* The specifications of the module:                                       *)
(*   Spec     builds a DAG by appends and freezes it with FromDAG;         *)
(*   SpecAppend appends well-formed and malformed operations to a DAG;     *)
(*   SpecCaller adds a caller writing to what Operations() returned;       *)
(*   SpecNew  constructs Simulators from SimulatorOptions;                 *)
(*   SpecCtor constructs Simulators with and without the registry;         *)
(*   SpecSim  constructs Simulators and runs Run on them;                  *)
(*   SpecRuns is SpecSim with a caller comparing two Runs;                 *)
(*   SpecSv   is SpecSim with GetStatevector calls;                        *)
(*   SpecMode is SpecSv with the StateVector option set;                   *)
(*   SpecOracle runs the Deutsch-Jozsa oracles on basis inputs;            *)
(*   SpecBV   runs the Bernstein-Vazirani oracles on basis inputs;         *)
(*   SpecSimon runs the test of the Simon oracles;                         *)
(*   SpecBV4  runs the 4-qubit Bernstein-Vazirani circuit shot by shot;    *)
(*   SpecSimonRun runs the circuits of Simon's algorithm shot by shot.     *)
(***************************************************************************)
EXTENDS Integers, Sequences, FiniteSets

VARIABLES
    dagNodes,      \* dag: the nodes in insertion order; the node id is the index
    lastQ,         \* dag: last writer of every quantum bit (0 = none)
    lastC,         \* dag: last writer of every classical bit (0 = none)
    appendRet,     \* dag: the last append call, its operands and its error
    circ,          \* the frozen *circuit returned by the last FromDAG, or NoCircuit
    layout,        \* FromDAG's locals at its return: nodes read and nodeTimeStep
    got,           \* the []Operation a caller holds from Operations(), if it holds one
    dj,            \* examples/deutsch-jozsa: the locals of checkOracle
    sm,            \* examples/simon: the locals of checkOracleProperties
    ex,            \* examples: the locals of an algorithm function and of its shots
    numCPU,        \* runtime.NumCPU() of the host
    runClbits,     \* Clbits() of the circuit handed to Run / GetStatevector
    opts,          \* the SimulatorOptions of the last NewSimulator call
    sim,           \* the *Simulator the last constructor returned, or NoSim (nil)
    ctor,          \* the last constructor call: function, backend name, error
    phase,         \* Run: "idle", "running", "returned", "panic"
    nextShot,      \* Run: the shared next-shot counter
    cancelled,     \* Run: the cooperative cancellation flag
    pc,            \* Run: position of every worker
    local,         \* Run: local histogram of every worker
    errLog,        \* Run: the errors RunOnce returned, in the order they occurred
    firstErr,      \* Run: the error slot of the scheduler
    runRet,        \* what the last Run returned: [hist, err]
    prevRun,       \* a histogram the caller kept from an earlier Run: [shots, hist]
    svRunner,      \* what the runner's GetStatevector returned to the last call
    svRet          \* what the last Simulator.GetStatevector returned: [amps, err]

dagVars == <<dagNodes, lastQ, lastC, appendRet>>
layoutVars == <<dagNodes, lastQ, lastC, appendRet, circ, layout, got, dj, sm, ex>>
runVars == <<phase, nextShot, cancelled, pc, local, errLog, firstErr, runRet, prevRun>>
simVars == <<numCPU, runClbits, opts, sim, ctor>>
svVars == <<svRunner, svRet>>
vars == <<dagNodes, lastQ, lastC, circ, layout, numCPU, runClbits, sim, phase,
          nextShot, cancelled, pc, local, errLog, firstErr, runRet, prevRun, opts,
          svRunner, svRet, ctor, got, appendRet, dj, sm, ex>>

----------------------------------------------------------------------------
(* Bounds of the model.                                                    *)

NQubits == 2
NClbits == 1
MaxNodes == 3

QubitIdx == 0 .. (NQubits - 1)
ClbitIdx == 0 .. (NClbits - 1)

----------------------------------------------------------------------------
(* Gate catalog.                                                           *)

GateKinds == {"H", "X", "Y", "Z", "S", "CNOT", "CZ", "SWAP", "TOFFOLI", "FREDKIN", "MEASURE"}

\* Number of quantum operands of a gate kind.
QubitSpan(g) ==
    IF g \in {"H", "X", "Y", "Z", "S", "MEASURE"} THEN 1
    ELSE IF g \in {"CNOT", "CZ", "SWAP"} THEN 2
    ELSE 3

\* The gate kinds the appends of the model draw from: a one-qubit gate, a
\* two-qubit gate and the measurement.
GateInputs == {"H", "CNOT", "MEASURE"}

\* Operand lists offered to append: one or two qubit indices.
QubitLists == UNION {[1 .. k -> QubitIdx] : k \in 1 .. 2}

SeqRange(s) == {s[i] : i \in 1 .. Len(s)}

----------------------------------------------------------------------------
(* Circuit DAG.                                                            *)

\* Mutant of ValidOperands: colliding quantum operands are let through.
ValidOperandsMayCollide(g, qs, c) ==
    /\ g \in GateKinds
    /\ Len(qs) = QubitSpan(g)
    /\ \A i \in 1 .. Len(qs) : qs[i] \in QubitIdx
    /\ IF g = "MEASURE" THEN c \in ClbitIdx ELSE c = -1

\* The append contract: operands in range and pairwise distinct, the arity of
\* the gate respected, a classical bit exactly for MEASURE.
ValidOperands(g, qs, c) ==
    /\ g \in GateKinds
    /\ Len(qs) = QubitSpan(g)
    /\ \A i \in 1 .. Len(qs) : qs[i] \in QubitIdx
    /\ \A i, j \in 1 .. Len(qs) : i # j => qs[i] # qs[j]
    /\ IF g = "MEASURE" THEN c \in ClbitIdx ELSE c = -1

\* Mutant of LastWriters: the new node is among its own parents.
LastWritersWithSelf(qs, c) ==
    {lastQ[q] : q \in SeqRange(qs)} \cup (IF c >= 0 THEN {lastC[c]} ELSE {})
        \cup {Len(dagNodes) + 1}

\* Parents of a node appended with operands qs, c: the last writers of its
\* bits (0 = none). The parents are a set of node identifiers, so a node that
\* is the last writer of two of the bits is one member.
LastWriters(qs, c) ==
    {lastQ[q] : q \in SeqRange(qs)} \cup (IF c >= 0 THEN {lastC[c]} ELSE {})

\* The appends the DAG accepts, among the inputs of the model.
AcceptedInputs ==
    {a \in GateInputs \X QubitLists \X (-1 .. (NClbits - 1)) :
        ValidOperands(a[1], a[2], a[3])}

AddNode(g, qs, c) ==
    /\ Len(dagNodes) < MaxNodes
    /\ ValidOperands(g, qs, c)
    /\ LET id == Len(dagNodes) + 1
           n == [G |-> g, Qubits |-> qs, Cbit |-> c,
                 parents |-> LastWriters(qs, c) \ {0}]
       IN /\ dagNodes' = Append(dagNodes, n)
          /\ lastQ' = [q \in QubitIdx |-> IF q \in SeqRange(qs) THEN id ELSE lastQ[q]]
          /\ lastC' = [b \in ClbitIdx |-> IF b = c THEN id ELSE lastC[b]]
    /\ appendRet' = [G |-> g, Qubits |-> qs, Cbit |-> c, err |-> "nil"]
    /\ UNCHANGED <<circ, layout, got, dj, sm, ex, simVars, runVars, svVars>>

\* The operand lists callers try to append: none to two indices, from one
\* below to one above the qubits of the DAG.
TriedQubitLists == UNION {[1 .. k -> -1 .. NQubits] : k \in 0 .. 2}

\* The appends of the model that the DAG rejects: classical operands from
\* none (-1) to one above the classical bits of the DAG.
RejectedInputs ==
    {a \in GateInputs \X TriedQubitLists \X (-1 .. NClbits) :
        ~ValidOperands(a[1], a[2], a[3])}

\* An append that violates the contract fails with InvalidOperand.
RejectNode(g, qs, c) ==
    /\ ~ValidOperands(g, qs, c)
    /\ appendRet' = [G |-> g, Qubits |-> qs, Cbit |-> c, err |-> "InvalidOperand"]
    /\ UNCHANGED <<dagNodes, lastQ, lastC, circ, layout, got, dj, sm, ex, simVars, runVars, svVars>>

\* Bound of the DAGs on which malformed appends are tried.
MaxTried == 1

\* An accepted append to a DAG of fewer than MaxTried nodes.
AddNodeTried(g, qs, c) ==
    /\ Len(dagNodes) < MaxTried
    /\ AddNode(g, qs, c)

\* A malformed append by a caller whose last append, if any, was accepted:
\* after an InvalidOperand the caller appends a well-formed operation next.
RejectNodeTried(g, qs, c) ==
    /\ IF appendRet = [none |-> TRUE] THEN TRUE ELSE appendRet.err = "nil"
    /\ RejectNode(g, qs, c)

\* Mutant of DagOperations: the order of the nodes depends on whether the
\* builder has frozen a circuit before.
DagOperationsOrderByHistory ==
    IF circ = [none |-> TRUE] THEN dagNodes
    ELSE [i \in 1 .. Len(dagNodes) |-> dagNodes[Len(dagNodes) + 1 - i]]

\* DAGReader.Operations(): the nodes in topological order (insertion order).
DagOperations == dagNodes

----------------------------------------------------------------------------
(* circuit.FromDAG.                                                        *)

NoCircuit == [none |-> TRUE]

\* Mutant of Max: maxStep is never raised.
MaxKeepsOld(a, b) == a

\* Lines 68-70.
Max(a, b) == IF a > b THEN a ELSE b

\* Mutant of CurrentMaxParentStep: the earliest parent instead of the latest.
MinParentStep(parents, nodeTimeStep) ==
    LET known == {nodeTimeStep[p] : p \in parents \cap DOMAIN nodeTimeStep}
    IN IF known = {} THEN -1 ELSE CHOOSE m \in known : \A x \in known : m <= x

\* Lines 57-62: max TimeStep of the parents already in nodeTimeStep, else -1.
CurrentMaxParentStep(parents, nodeTimeStep) ==
    LET known == {nodeTimeStep[p] : p \in parents \cap DOMAIN nodeTimeStep}
    IN IF known = {} THEN -1 ELSE CHOOSE m \in known : \A x \in known : x <= m

\* Mutant of StepOf: the step after the parents is skipped.
StepOfPlusTwo(currentMaxParentStep) == currentMaxParentStep + 2

\* Mutant of StepOf: the increment is lost.
StepOfNoIncrement(currentMaxParentStep) == currentMaxParentStep

\* Line 65.
StepOf(currentMaxParentStep) == currentMaxParentStep + 1

\* Mutant of MinQubit: every operation is put on line 0.
MinQubitZero(qs) == 0

\* Mutant of MinQubit: the first operand instead of the smallest.
FirstQubit(qs) ==
    IF Len(qs) = 0 THEN -1 ELSE qs[1]

\* Lines 73-81: minimum qubit index, -1 for no qubits.
MinQubit(qs) ==
    IF Len(qs) = 0 THEN -1
    ELSE CHOOSE m \in SeqRange(qs) : \A x \in SeqRange(qs) : m <= x

\* Mutant of LayoutLoop: the step of a node is not stored in nodeTimeStep.
RECURSIVE LayoutLoopForgetsStep(_, _, _, _, _)
LayoutLoopForgetsStep(nodes, i, nodeTimeStep, maxStep, ops) ==
    IF i > Len(nodes)
    THEN [nodeTimeStep |-> [id \in 1 .. Len(nodes) |-> ops[id].TimeStep],
          maxStep |-> maxStep, ops |-> ops]
    ELSE LET n == nodes[i]
             step == StepOf(CurrentMaxParentStep(n.parents, nodeTimeStep))
             op == [G |-> n.G, Qubits |-> n.Qubits, Cbit |-> n.Cbit,
                    TimeStep |-> step, Line |-> MinQubit(n.Qubits)]
         IN LayoutLoopForgetsStep(nodes, i + 1, nodeTimeStep, Max(maxStep, step),
                                  Append(ops, op))

\* Lines 55-90: the loop over the nodes, in the order given.
RECURSIVE LayoutLoop(_, _, _, _, _)
LayoutLoop(nodes, i, nodeTimeStep, maxStep, ops) ==
    IF i > Len(nodes)
    THEN [nodeTimeStep |-> nodeTimeStep, maxStep |-> maxStep, ops |-> ops]
    ELSE LET n == nodes[i]
             step == StepOf(CurrentMaxParentStep(n.parents, nodeTimeStep))
             op == [G |-> n.G, Qubits |-> n.Qubits, Cbit |-> n.Cbit,
                    TimeStep |-> step, Line |-> MinQubit(n.Qubits)]
         IN LayoutLoop(nodes, i + 1,
                       [id \in (DOMAIN nodeTimeStep) \cup {i} |->
                           IF id = i THEN step ELSE nodeTimeStep[id]],
                       Max(maxStep, step),
                       Append(ops, op))

\* Mutant of Less: the TimeStep comparison is lost.
LessByLineOnly(a, b) == a.Line < b.Line

\* Lines 93-98: the less function of the sort.
Less(a, b) ==
    IF a.TimeStep # b.TimeStep THEN a.TimeStep < b.TimeStep ELSE a.Line < b.Line

\* Mutant of InsertStable: x takes the place of the element it goes before.
InsertStableOverwrites(s, x) ==
    LET before == {k \in 1 .. Len(s) : Less(x, s[k])}
        at == IF before = {} THEN Len(s) + 1
              ELSE CHOOSE k \in before : \A j \in before : k <= j
    IN SubSeq(s, 1, at - 1) \o <<x>> \o SubSeq(s, at + 1, Len(s))

\* Stable insertion of x behind the elements of the sorted s it is not less than.
InsertStable(s, x) ==
    LET before == {k \in 1 .. Len(s) : Less(x, s[k])}
        at == IF before = {} THEN Len(s) + 1
              ELSE CHOOSE k \in before : \A j \in before : k <= j
    IN SubSeq(s, 1, at - 1) \o <<x>> \o SubSeq(s, at, Len(s))

\* Mutant of SortSliceStable: the slice is left as the loop filled it.
SortSkipped(ops) == ops

\* sort.SliceStable(ops, less).
RECURSIVE SortSliceStable(_)
SortSliceStable(ops) ==
    IF Len(ops) = 0 THEN <<>>
    ELSE InsertStable(SortSliceStable(SubSeq(ops, 1, Len(ops) - 1)), ops[Len(ops)])

\* FromDAG for the nodes handed over by the DAGReader: the circuit it
\* returns, with its locals nodes and nodeTimeStep as they are at the return.
FromDAG(nodes) ==
    IF Len(nodes) = 0
    THEN [circuit |-> [qubits |-> NQubits, clbits |-> NClbits, ops |-> <<>>,
                       depth |-> 0, maxStep |-> -1],
          nodes |-> nodes, nodeTimeStep |-> <<>>]
    ELSE LET r == LayoutLoop(nodes, 1, <<>>, -1, <<>>)
         IN [circuit |-> [qubits |-> NQubits, clbits |-> NClbits,
                          ops |-> SortSliceStable(r.ops),
                          depth |-> r.maxStep + 1, maxStep |-> r.maxStep],
             nodes |-> nodes, nodeTimeStep |-> r.nodeTimeStep]

\* circuit.Operations(): a copy of the cached slice.
Operations(c) == c.ops

\* BuildCircuit: freeze the DAG as it is now.
Freeze ==
    /\ LET r == FromDAG(DagOperations)
       IN /\ circ' = r.circuit
          /\ layout' = [nodes |-> r.nodes, nodeTimeStep |-> r.nodeTimeStep]
    /\ UNCHANGED <<dagVars, got, dj, sm, ex, simVars, runVars, svVars>>


----------------------------------------------------------------------------
(* A caller of Operations().                                               *)

\* Lines 132-137: make and copy. The Operation structs are copied, and with
\* them the slice headers of their Qubits: item k of the result shares the
\* backing array of the Qubits of c.ops[k]. shares = 0 is an array of the
\* caller's own.
CopyOfOps(c) ==
    [k \in 1 .. Len(c.ops) |->
        [G |-> c.ops[k].G, Qubits |-> c.ops[k].Qubits, Cbit |-> c.ops[k].Cbit,
         TimeStep |-> c.ops[k].TimeStep, Line |-> c.ops[k].Line, shares |-> k]]

\* BuildCircuit, once: the circuit the caller works with.
FreezeOnce ==
    /\ circ = NoCircuit
    /\ Freeze

\* ops := c.Operations()
CallOperations ==
    /\ circ # NoCircuit
    /\ ~got.held
    /\ got' = [held |-> TRUE, ops |-> CopyOfOps(circ)]
    /\ UNCHANGED <<dagVars, circ, layout, dj, sm, ex, simVars, runVars, svVars>>

\* ops[k] = Operation{G: X, Qubits: []int{q}, Cbit: -1}
ReplaceItem(k, q) ==
    /\ got.held
    /\ k \in 1 .. Len(got.ops)
    /\ got' = [got EXCEPT !.ops[k] = [G |-> "X", Qubits |-> <<q>>, Cbit |-> -1,
                                      TimeStep |-> 0, Line |-> 0, shares |-> 0]]
    /\ UNCHANGED <<dagVars, circ, layout, dj, sm, ex, simVars, runVars, svVars>>

\* ops[k].Qubits[j] = v: a write to the backing array, seen through every
\* slice that shares it.
SetOperand(k, j, v) ==
    /\ got.held
    /\ k \in 1 .. Len(got.ops)
    /\ j \in 1 .. Len(got.ops[k].Qubits)
    /\ got.ops[k].Qubits[j] # v
    /\ LET a == got.ops[k].shares
       IN /\ got' = [got EXCEPT !.ops =
                        [i \in 1 .. Len(got.ops) |->
                            IF i = k \/ (a # 0 /\ got.ops[i].shares = a)
                            THEN [got.ops[i] EXCEPT !.Qubits[j] = v]
                            ELSE got.ops[i]]]
          /\ circ' = IF a = 0 THEN circ
                     ELSE [circ EXCEPT !.ops[a].Qubits[j] = v]
    /\ UNCHANGED <<dagVars, layout, dj, sm, ex, simVars, runVars, svVars>>

----------------------------------------------------------------------------
(* Properties of the layout (specification Spec).                          *)

Frozen == circ # NoCircuit

\* Bits are named <<"q", k>> and <<"c", k>>.
AllBits == ({"q"} \X QubitIdx) \cup ({"c"} \X ClbitIdx)

TouchedBits(o) ==
    {<<"q", q>> : q \in SeqRange(o.Qubits)}
        \cup (IF o.Cbit >= 0 THEN {<<"c", o.Cbit>>} ELSE {})

\* The node that last touched bit b before node i was appended, or 0.
LastToucher(nodes, i, b) ==
    LET earlier == {j \in 1 .. (i - 1) : b \in TouchedBits(nodes[j])}
    IN IF earlier = {} THEN 0 ELSE CHOOSE j \in earlier : \A x \in earlier : x <= j

\* The parents of node i: the last touchers of its bits.
ParentsOf(nodes, i) ==
    {LastToucher(nodes, i, b) : b \in TouchedBits(nodes[i])} \ {0}

\* Node i of the frozen DAG as it has to appear among the operations.
OpKey(o) == <<o.G, o.Qubits, o.Cbit, o.TimeStep>>
NodeKey(i) ==
    <<layout.nodes[i].G, layout.nodes[i].Qubits, layout.nodes[i].Cbit,
      layout.nodeTimeStep[i]>>

\* C1: in a frozen circuit every operation carries the TimeStep FromDAG gave
\* its node, and that TimeStep is strictly greater than the TimeStep of every
\* parent of the node (the last toucher of each of its bits).
C1_StepAfterParents ==
    Frozen =>
        \A i \in 1 .. Len(layout.nodes) :
            /\ \E k \in 1 .. Len(Operations(circ)) : OpKey(Operations(circ)[k]) = NodeKey(i)
            /\ \A p \in ParentsOf(layout.nodes, i) :
                   layout.nodeTimeStep[i] > layout.nodeTimeStep[p]

\* A frozen circuit with a node that has two parents of different TimeStep.
C1_Witness ==
    /\ Frozen
    /\ \E i \in 1 .. Len(layout.nodes) :
           \E p1, p2 \in ParentsOf(layout.nodes, i) :
               layout.nodeTimeStep[p1] < layout.nodeTimeStep[p2]

\* C2: Operations() is sorted by TimeStep ascending, then Line ascending.
C2_SortedByStepThenLine ==
    Frozen =>
        LET ops == Operations(circ)
        IN \A k \in 1 .. (Len(ops) - 1) :
               \/ ops[k].TimeStep < ops[k + 1].TimeStep
               \/ /\ ops[k].TimeStep = ops[k + 1].TimeStep
                  /\ ops[k].Line <= ops[k + 1].Line

\* A frozen circuit whose operations are not in append order: the sort moved one.
C2_Witness ==
    /\ Frozen
    /\ Len(Operations(circ)) = Len(layout.nodes)
    /\ \E k \in 1 .. Len(layout.nodes) : OpKey(Operations(circ)[k]) # NodeKey(k)

\* C3: two distinct operations with the same TimeStep share no quantum
\* operand and no classical bit.
C3_SameStepDisjointBits ==
    Frozen =>
        LET ops == Operations(circ)
        IN \A j, k \in 1 .. Len(ops) :
               (j # k /\ ops[j].TimeStep = ops[k].TimeStep) =>
                   /\ SeqRange(ops[j].Qubits) \cap SeqRange(ops[k].Qubits) = {}
                   /\ (ops[j].Cbit = -1 \/ ops[j].Cbit # ops[k].Cbit)

\* A frozen circuit of depth two or more with two operations in one time step.
C3_Witness ==
    /\ Frozen
    /\ circ.depth >= 2
    /\ \E j, k \in 1 .. Len(Operations(circ)) :
           j # k /\ Operations(circ)[j].TimeStep = Operations(circ)[k].TimeStep

\* The operations of s that touch bit b, in the order of s.
RECURSIVE OnBit(_, _)
OnBit(s, b) ==
    IF Len(s) = 0 THEN <<>>
    ELSE (IF b \in TouchedBits(Head(s)) THEN <<Head(s)>> ELSE <<>>) \o OnBit(Tail(s), b)

FrozenNodeOps ==
    [i \in 1 .. Len(layout.nodes) |->
        [G |-> layout.nodes[i].G, Qubits |-> layout.nodes[i].Qubits,
         Cbit |-> layout.nodes[i].Cbit, TimeStep |-> layout.nodeTimeStep[i]]]

KeysOf(s) == [k \in 1 .. Len(s) |-> OpKey(s[k])]

\* C4: for every quantum and classical bit, the operations touching the bit
\* appear in Operations() in the order in which they were appended.
C4_PerBitAppendOrder ==
    Frozen =>
        \A b \in AllBits :
            KeysOf(OnBit(Operations(circ), b)) = KeysOf(OnBit(FrozenNodeOps, b))

\* A frozen circuit not in append order in which a classical bit and a quantum
\* bit are each touched by two operations.
C4_Witness ==
    /\ Frozen
    /\ KeysOf(Operations(circ)) # KeysOf(FrozenNodeOps)
    /\ \E q \in QubitIdx : Len(OnBit(Operations(circ), <<"q", q>>)) >= 2
    /\ \E c \in ClbitIdx : Len(OnBit(Operations(circ), <<"c", c>>)) >= 2

\* The largest member of a non-empty set of integers.
Largest(S) == CHOOSE m \in S : \A x \in S : x <= m

\* C15: FromDAG gives every node the TimeStep 1 + the largest TimeStep of
\* its parents, and 0 when it has no parents; the node's operation carries it.
C15_StepIsOnePlusMaxParent ==
    Frozen =>
        \A i \in 1 .. Len(layout.nodes) :
            LET ps == layout.nodes[i].parents
            IN /\ layout.nodeTimeStep[i] =
                      IF ps = {} THEN 0
                      ELSE 1 + Largest({layout.nodeTimeStep[p] : p \in ps})
               /\ \E k \in 1 .. Len(Operations(circ)) :
                      OpKey(Operations(circ)[k]) = NodeKey(i)

\* A frozen circuit with a root at TimeStep 0 and a node at TimeStep 2 whose
\* two parents are at TimeSteps 0 and 1.
C15_Witness ==
    /\ Frozen
    /\ \E i \in 1 .. Len(layout.nodes) :
           /\ layout.nodeTimeStep[i] = 2
           /\ {layout.nodeTimeStep[p] : p \in layout.nodes[i].parents} = {0, 1}

\* C16: MaxStep() is the largest TimeStep of the operations, Depth() is
\* MaxStep() + 1, and a circuit without operations has MaxStep() = -1,
\* Depth() = 0 and empty Operations().
C16_MaxStepAndDepth ==
    Frozen =>
        LET ops == Operations(circ)
        IN /\ circ.depth = circ.maxStep + 1
           /\ IF Len(layout.nodes) = 0
              THEN ops = <<>> /\ circ.maxStep = -1 /\ circ.depth = 0
              ELSE /\ Len(ops) = Len(layout.nodes)
                   /\ circ.maxStep = Largest({ops[k].TimeStep : k \in 1 .. Len(ops)})

\* A frozen circuit of depth 2 whose last appended node is not in the last step.
C16_Witness ==
    /\ Frozen
    /\ circ.maxStep = 1
    /\ circ.depth = 2
    /\ layout.nodeTimeStep[Len(layout.nodes)] = 0

\* C17: the Line of every operation is the smallest of its quantum operand
\* indices, in whatever order the operands are given.
C17_LineIsMinOperand ==
    Frozen =>
        \A k \in 1 .. Len(Operations(circ)) :
            LET o == Operations(circ)[k]
            IN /\ o.Line \in SeqRange(o.Qubits)
               /\ \A q \in SeqRange(o.Qubits) : o.Line <= q

\* A frozen circuit with an operation whose smallest operand is not its first.
C17_Witness ==
    /\ Frozen
    /\ \E k \in 1 .. Len(Operations(circ)) :
           LET o == Operations(circ)[k]
           IN Len(o.Qubits) = 2 /\ o.Qubits[1] > o.Qubits[2] /\ o.Line = o.Qubits[2]

\* The append sequence the frozen circuit was built from: gate, quantum
\* operands and classical operand of every append, in order.
AppendSequence ==
    [i \in 1 .. Len(layout.nodes) |->
        [G |-> dagNodes[i].G, Qubits |-> dagNodes[i].Qubits, Cbit |-> dagNodes[i].Cbit]]

\* The nodes of a second DAG built from nothing by the append sequence s:
\* the parents of a node are the last nodes appended on each of its bits.
SecondDag(s) ==
    [i \in 1 .. Len(s) |->
        [G |-> s[i].G, Qubits |-> s[i].Qubits, Cbit |-> s[i].Cbit,
         parents |-> ParentsOf(s, i)]]

LoopOps == LayoutLoop(layout.nodes, 1, <<>>, -1, <<>>).ops

Reverse(s) == [k \in 1 .. Len(s) |-> s[Len(s) + 1 - k]]

\* C28: in a frozen circuit no two distinct operations have the same
\* (TimeStep, Line), so the order of Operations() does not depend on the
\* order the sort is given the items in: sorting the loop's slice from its
\* last item to its first gives the same Operations().
C28_SortKeyIsTotal ==
    Frozen =>
        LET ops == Operations(circ)
        IN /\ \A j, k \in 1 .. Len(ops) :
                  j # k => <<ops[j].TimeStep, ops[j].Line>> # <<ops[k].TimeStep, ops[k].Line>>
           /\ \A j, k \in 1 .. Len(ops) : j # k => (Less(ops[j], ops[k]) \/ Less(ops[k], ops[j]))
           /\ Len(layout.nodes) > 0 => SortSliceStable(Reverse(LoopOps)) = ops

\* A frozen circuit of three operations, two of them in one time step on
\* different lines, which the loop filled in another order than the sort left.
C28_Witness ==
    /\ Frozen
    /\ Len(Operations(circ)) = 3
    /\ \E j, k \in 1 .. 3 :
           /\ Operations(circ)[j].TimeStep = Operations(circ)[k].TimeStep
           /\ Operations(circ)[j].Line < Operations(circ)[k].Line
    /\ LoopOps # Operations(circ)
    /\ Reverse(LoopOps) # Operations(circ)

\* The dependency chains of the frozen nodes that end at node i: the sets of
\* nodes with largest member i in which every member but the smallest has the
\* next smaller member among its parents.
ChainsEndingAt(i) ==
    {S \in SUBSET (1 .. i) :
        /\ i \in S
        /\ \A x \in S :
               LET below == {y \in S : y < x}
               IN below # {} => Largest(below) \in layout.nodes[x].parents}

LongestChainEndingAt(i) == Largest({Cardinality(S) : S \in ChainsEndingAt(i)})

\* C29: in a frozen circuit that is not empty the TimeStep of every node's
\* operation is the number of edges of the longest dependency path ending at
\* the node, Depth() is the number of operations of the longest dependency
\* chain and at most the number of operations, and every time step of
\* 0 .. MaxStep() has an operation.
C29_StepIsLongestPath ==
    (Frozen /\ Len(layout.nodes) > 0) =>
        LET ops == Operations(circ)
        IN /\ \A i \in 1 .. Len(layout.nodes) :
                  /\ layout.nodeTimeStep[i] = LongestChainEndingAt(i) - 1
                  /\ \E k \in 1 .. Len(ops) :
                         /\ OpKey(ops[k]) = NodeKey(i)
                         /\ ops[k].TimeStep = LongestChainEndingAt(i) - 1
           /\ circ.depth = Largest({LongestChainEndingAt(i) : i \in 1 .. Len(layout.nodes)})
           /\ circ.depth <= Len(ops)
           /\ circ.depth >= 1
           /\ \A t \in 0 .. circ.maxStep : \E k \in 1 .. Len(ops) : ops[k].TimeStep = t

\* A frozen circuit of three operations and depth 2: a chain of two
\* operations and an operation outside it.
C29_Witness ==
    /\ Frozen
    /\ Len(layout.nodes) = 3
    /\ circ.depth = 2
    /\ \E i \in 1 .. 3 : LongestChainEndingAt(i) = 2 /\ Cardinality(ChainsEndingAt(i)) >= 2

\* How many items of the sequence s have gate g, operands qs and classical bit c.
CountOf(s, g, qs, c) ==
    Cardinality({k \in 1 .. Len(s) : s[k].G = g /\ s[k].Qubits = qs /\ s[k].Cbit = c})

\* C30: a call of FromDAG leaves the DAG as it was, and the circuit it
\* returns has the DAG's qubit and classical bit counts and as operations a
\* permutation of the DAG's nodes: every gate with its operand list and its
\* classical bit (-1 unless the gate is MEASURE) as often as the DAG has it.
C30_FromDagKeepsOperations ==
    [][(circ' # circ \/ layout' # layout) =>
          /\ dagNodes' = dagNodes /\ lastQ' = lastQ /\ lastC' = lastC
          /\ layout'.nodes = dagNodes
          /\ circ'.qubits = NQubits
          /\ circ'.clbits = NClbits
          /\ Len(circ'.ops) = Len(dagNodes)
          /\ \A n \in 1 .. Len(dagNodes) :
                 CountOf(circ'.ops, dagNodes[n].G, dagNodes[n].Qubits, dagNodes[n].Cbit)
                     = CountOf(dagNodes, dagNodes[n].G, dagNodes[n].Qubits, dagNodes[n].Cbit)
          /\ \A k \in 1 .. Len(circ'.ops) :
                 (circ'.ops[k].G # "MEASURE") <=> (circ'.ops[k].Cbit = -1)]_vars

\* A frozen circuit of a DAG in which one operation occurs twice and a
\* MEASURE once, in another order than the DAG has them.
C30_Witness ==
    /\ Frozen
    /\ Len(dagNodes) = 3
    /\ Len(layout.nodes) = 3
    /\ \E n \in 1 .. 3 :
           /\ CountOf(dagNodes, dagNodes[n].G, dagNodes[n].Qubits, dagNodes[n].Cbit) = 2
           /\ CountOf(Operations(circ), dagNodes[n].G, dagNodes[n].Qubits, dagNodes[n].Cbit) = 2
    /\ \E k \in 1 .. 3 : Operations(circ)[k].G = "MEASURE" /\ Operations(circ)[k].Cbit >= 0
    /\ KeysOf(Operations(circ)) # KeysOf(FrozenNodeOps)

\* The ways an append can violate the contract, for the call r.
IndexOutOfRange(r) ==
    \/ \E i \in 1 .. Len(r.Qubits) : r.Qubits[i] < 0 \/ r.Qubits[i] >= NQubits
    \/ r.Cbit # -1 /\ (r.Cbit < 0 \/ r.Cbit >= NClbits)
OperandsCollide(r) ==
    \E i, j \in 1 .. Len(r.Qubits) : i # j /\ r.Qubits[i] = r.Qubits[j]
ArityViolated(r) ==
    Len(r.Qubits) # (IF r.G \in {"H", "MEASURE"} THEN 1 ELSE 2)
ClassicalMisused(r) ==
    \/ r.G # "MEASURE" /\ r.Cbit # -1
    \/ r.G = "MEASURE" /\ r.Cbit = -1
Malformed(r) ==
    IndexOutOfRange(r) \/ OperandsCollide(r) \/ ArityViolated(r) \/ ClassicalMisused(r)

\* C19: an append with an index out of range, colliding quantum operands, a
\* violated arity, a classical operand on a gate other than MEASURE or none
\* on MEASURE fails with InvalidOperand, and a failed append leaves the
\* nodes, their edges and the last writers of the DAG as they were.
C19_MalformedAppendRejected ==
    [][(appendRet' # [none |-> TRUE]) =>
          /\ Malformed(appendRet') => appendRet'.err = "InvalidOperand"
          /\ appendRet'.err = "InvalidOperand" =>
                 UNCHANGED <<dagNodes, lastQ, lastC>>
      ]_vars

\* A CNOT with both operands on qubit 0 was rejected by a DAG whose qubit 0
\* has a last writer.
C19_Witness ==
    /\ appendRet # [none |-> TRUE]
    /\ appendRet.err = "InvalidOperand"
    /\ appendRet.G = "CNOT"
    /\ appendRet.Qubits = <<0, 0>>
    /\ Len(dagNodes) = 1
    /\ lastQ[0] = 1

\* What the accessors of the frozen circuit return.
Accessors == <<circ.qubits, circ.clbits, circ.depth, circ.maxStep, Operations(circ)>>

\* C14: once the circuit is frozen, no step (a later append to the DAG, a
\* replaced item or a changed operand index in the value Operations()
\* returned) changes what Qubits(), Clbits(), Depth(), MaxStep() and
\* Operations() return.
C14_FrozenImmutable ==
    [][Frozen => Accessors' = Accessors]_vars

----------------------------------------------------------------------------
(* simulator.NewSimulator.                                                 *)

MaxShots == 2
MaxCPU == 2

DefaultShots == 1024

NoSim == [none |-> TRUE]
NoRet == [none |-> TRUE]

\* The runners handed to NewSimulator: the nil interface, a runner with
\* RunOnce only, and a runner that is also a StatevectorGetter.
RunnerInputs == {"nil", "plain", "sv"}

\* The SimulatorOptions values the model constructs simulators from.
OptionInputs ==
    [Shots : -1 .. MaxShots, Workers : -1 .. (MaxShots + 1),
     Runner : RunnerInputs, StateVector : BOOLEAN]

\* The options of the simulators the model runs shots on.
RunOptionInputs ==
    [Shots : 1 .. MaxShots, Workers : 0 .. MaxShots,
     Runner : RunnerInputs, StateVector : {FALSE}]

\* The options of the simulators constructed to return the state vector.
StateVectorOptionInputs ==
    [Shots : 1 .. MaxShots, Workers : 0 .. MaxShots,
     Runner : RunnerInputs, StateVector : {TRUE}]

\* Mutant of ShotsOf: only a negative Shots is replaced.
ShotsOfNegativeOnly(options) ==
    IF options.Shots < 0 THEN DefaultShots ELSE options.Shots

\* Lines 39-42.
ShotsOf(options) ==
    IF options.Shots <= 0 THEN DefaultShots ELSE options.Shots

\* Mutant of WorkersOf: the cap at shots is lost.
WorkersOfUncapped(options, shots) ==
    IF options.Workers <= 0 THEN numCPU ELSE options.Workers

\* Lines 44-50.
WorkersOf(options, shots) ==
    LET workers == IF options.Workers <= 0 THEN numCPU ELSE options.Workers
    IN IF workers > shots THEN shots ELSE workers

\* Lines 38-56: the Simulator NewSimulator returns.
MakeSimulator(options) ==
    [Shots |-> ShotsOf(options),
     Workers |-> WorkersOf(options, ShotsOf(options)),
     runner |-> options.Runner]

\* A caller constructs a simulator while no Run is in progress; the run and
\* state-vector variables describe the new simulator, which has run nothing.
NewSimulator(options) ==
    /\ phase \in {"idle", "returned"}
    /\ opts' = options
    /\ sim' = MakeSimulator(options)
    /\ ctor' = [fn |-> "NewSimulator", name |-> "", err |-> "nil", wraps |-> "nil"]
    /\ phase' = "idle"
    /\ nextShot' = 0
    /\ cancelled' = FALSE
    /\ pc' = <<>>
    /\ local' = <<>>
    /\ errLog' = <<>>
    /\ firstErr' = "nil"
    /\ runRet' = NoRet
    /\ svRunner' = NoRet
    /\ svRet' = NoRet
    /\ UNCHANGED <<layoutVars, numCPU, runClbits, prevRun>>

----------------------------------------------------------------------------
(* The backend registry and simulator.NewSimulatorWithRunner.              *)

\* The names registered at initialization time, with the runner each factory
\* creates: qsim is a StatevectorGetter, itsu is taken to have RunOnce only.
RegisteredNames == {"itsu", "qsim"}
Factory == [itsu |-> "plain", qsim |-> "sv"]

\* The backend names the callers of the model ask for.
NameInputs == RegisteredNames \cup {"nope"}

\* CreateRunner(name): the instance of the factory, or UnknownBackend.
CreateRunner(name) ==
    IF name \in RegisteredNames
    THEN [runner |-> Factory[name], err |-> "nil"]
    ELSE [runner |-> "nil", err |-> "UnknownBackend"]

\* Mutant of NewSimulatorWithRunnerOf: options.Runner is not overwritten.
WithRunnerKeepsOption(runnerName, options) ==
    LET created == CreateRunner(runnerName)
    IN IF created.err # "nil"
       THEN [sim |-> NoSim, err |-> "failed to create runner", wraps |-> created.err]
       ELSE [sim |-> MakeSimulator(options), err |-> "nil", wraps |-> "nil"]

\* Lines 88-96: what NewSimulatorWithRunner returns, the nil *Simulator being
\* NoSim and the error of fmt.Errorf("...%w") its message and what it wraps.
NewSimulatorWithRunnerOf(runnerName, options) ==
    LET created == CreateRunner(runnerName)
    IN IF created.err # "nil"
       THEN [sim |-> NoSim, err |-> "failed to create runner", wraps |-> created.err]
       ELSE [sim |-> MakeSimulator([options EXCEPT !.Runner = created.runner]),
             err |-> "nil", wraps |-> "nil"]

\* A caller constructs a simulator by backend name while no Run is in progress.
NewSimulatorWithRunner(runnerName, options) ==
    /\ phase \in {"idle", "returned"}
    /\ LET ret == NewSimulatorWithRunnerOf(runnerName, options)
       IN /\ sim' = ret.sim
          /\ ctor' = [fn |-> "NewSimulatorWithRunner", name |-> runnerName,
                      err |-> ret.err, wraps |-> ret.wraps]
    /\ opts' = options
    /\ phase' = "idle"
    /\ nextShot' = 0
    /\ cancelled' = FALSE
    /\ pc' = <<>>
    /\ local' = <<>>
    /\ errLog' = <<>>
    /\ firstErr' = "nil"
    /\ runRet' = NoRet
    /\ svRunner' = NoRet
    /\ svRet' = NoRet
    /\ UNCHANGED <<layoutVars, numCPU, runClbits, prevRun>>

----------------------------------------------------------------------------
(* Simulator.Run: the shot scheduler.                                      *)

\* Outcome strings of a circuit with c classical bits: one character per bit.
OutcomeStrings(c) == [1 .. c -> {"0", "1"}]

\* The outcome strings of every circuit the model runs.
OutcomeInputs == UNION {OutcomeStrings(c) : c \in 0 .. NClbits}

\* The errors a shot can fail with.
ShotErrors == {"NumericDegenerate", "BackendInternal"}

WorkerIds(s) == 1 .. s.Workers

\* Lines 73-76: Run enters the scheduler with the simulator's Shots and Workers.
Run ==
    /\ sim # NoSim
    /\ phase \in {"idle", "returned"}
    /\ sim.Shots <= MaxShots
    /\ phase' = "running"
    /\ nextShot' = 0
    /\ cancelled' = FALSE
    /\ pc' = [w \in WorkerIds(sim) |-> "ready"]
    /\ local' = [w \in WorkerIds(sim) |-> <<>>]
    /\ errLog' = <<>>
    /\ firstErr' = "nil"
    /\ runRet' = NoRet
    /\ UNCHANGED <<layoutVars, simVars, prevRun, svVars>>

\* Mutant of WorkerPull: the worker does not look at the cancellation flag.
WorkerPullIgnoresCancel(w) ==
    /\ phase = "running"
    /\ w \in DOMAIN pc
    /\ pc[w] = "ready"
    /\ IF nextShot >= sim.Shots
       THEN /\ pc' = [pc EXCEPT ![w] = "done"]
            /\ UNCHANGED nextShot
       ELSE /\ pc' = [pc EXCEPT ![w] = "shot"]
            /\ nextShot' = nextShot + 1
    /\ UNCHANGED <<layoutVars, simVars, phase, cancelled, local, errLog, firstErr,
                   runRet, prevRun, svVars>>

\* A worker between shots: it stops when the run is cancelled or no shot is
\* left, and otherwise takes the next shot index from the shared counter.
WorkerPull(w) ==
    /\ phase = "running"
    /\ w \in DOMAIN pc
    /\ pc[w] = "ready"
    /\ IF cancelled \/ nextShot >= sim.Shots
       THEN /\ pc' = [pc EXCEPT ![w] = "done"]
            /\ UNCHANGED nextShot
       ELSE /\ pc' = [pc EXCEPT ![w] = "shot"]
            /\ nextShot' = nextShot + 1
    /\ UNCHANGED <<layoutVars, simVars, phase, cancelled, local, errLog, firstErr,
                   runRet, prevRun, svVars>>

\* local[key]++ on a Go map.
Count(h, key) ==
    [k \in (DOMAIN h) \cup {key} |->
        IF k = key THEN (IF key \in DOMAIN h THEN h[key] + 1 ELSE 1) ELSE h[k]]

\* Mutant of RecordError: a later error overwrites the slot.
RecordLastError(slot, e) == e

\* The error slot keeps the first error it is given.
RecordError(slot, e) == IF slot = "nil" THEN e ELSE slot

\* RunOnce returned an outcome string: the worker counts it.
ShotOk(w, key) ==
    /\ phase = "running"
    /\ w \in DOMAIN pc
    /\ pc[w] = "shot"
    /\ sim.runner # "nil"
    /\ key \in OutcomeStrings(runClbits)
    /\ local' = [local EXCEPT ![w] = Count(local[w], key)]
    /\ pc' = [pc EXCEPT ![w] = "ready"]
    /\ UNCHANGED <<layoutVars, simVars, phase, nextShot, cancelled, errLog, firstErr,
                   runRet, prevRun, svVars>>

\* RunOnce returned an error: the worker reports it, cancels the run and stops.
ShotFail(w, e) ==
    /\ phase = "running"
    /\ w \in DOMAIN pc
    /\ pc[w] = "shot"
    /\ sim.runner # "nil"
    /\ errLog' = Append(errLog, e)
    /\ firstErr' = RecordError(firstErr, e)
    /\ cancelled' = TRUE
    /\ pc' = [pc EXCEPT ![w] = "done"]
    /\ UNCHANGED <<layoutVars, simVars, phase, nextShot, local, runRet, prevRun, svVars>>

\* RunOnce on the nil runner: a nil dereference ends the process.
ShotNil(w) ==
    /\ phase = "running"
    /\ w \in DOMAIN pc
    /\ pc[w] = "shot"
    /\ sim.runner = "nil"
    /\ phase' = "panic"
    /\ UNCHANGED <<layoutVars, simVars, nextShot, cancelled, pc, local, errLog,
                   firstErr, runRet, prevRun, svVars>>

RECURSIVE SumCounts(_, _, _)
SumCounts(locals, ws, key) ==
    IF ws = {} THEN 0
    ELSE LET w == CHOOSE x \in ws : TRUE
         IN (IF key \in DOMAIN locals[w] THEN locals[w][key] ELSE 0)
            + SumCounts(locals, ws \ {w}, key)

\* Mutant of MergeLocals: only the first worker's histogram is returned.
MergeFirstOnly(locals) == locals[1]

\* The global histogram: the local histograms of all workers merged.
MergeLocals(locals) ==
    [k \in UNION {DOMAIN locals[w] : w \in DOMAIN locals} |->
        SumCounts(locals, DOMAIN locals, k)]

\* All workers have stopped: Run returns the first error and no histogram,
\* or the merged histogram.
RunReturn ==
    /\ phase = "running"
    /\ \A w \in DOMAIN pc : pc[w] = "done"
    /\ phase' = "returned"
    /\ runRet' = IF firstErr # "nil"
                 THEN [hist |-> "nil", err |-> firstErr, shots |-> sim.Shots]
                 ELSE [hist |-> MergeLocals(local), err |-> "nil", shots |-> sim.Shots]
    /\ UNCHANGED <<layoutVars, simVars, nextShot, cancelled, pc, local, errLog,
                   firstErr, prevRun, svVars>>

\* The caller keeps the histogram Run returned, to compare a later Run with.
KeepHistogram ==
    /\ phase = "returned"
    /\ runRet # NoRet
    /\ runRet.err = "nil"
    /\ prevRun' = [hist |-> runRet.hist, shots |-> runRet.shots]
    /\ UNCHANGED <<layoutVars, simVars, phase, nextShot, cancelled, pc, local,
                   errLog, firstErr, runRet, svVars>>

----------------------------------------------------------------------------
(* Simulator.GetStatevector.                                               *)

ErrUnsupported == "runner does not support getting the state vector"

\* What a StatevectorGetter can return: the amplitudes, or its own error.
GetterReturns ==
    {[amps |-> "amplitudes", err |-> "nil"], [amps |-> "nil", err |-> "EmptyCircuit"]}

\* Line 81: the type assertion s.runner.(StatevectorGetter).
IsStatevectorGetter(runner) == runner = "sv"

\* Mutant of GetStatevectorOf: the capability check is lost.
GetStatevectorUnchecked(runner, r) == r

\* Lines 80-85, for the value r the runner's GetStatevector returns when called.
GetStatevectorOf(runner, r) ==
    IF IsStatevectorGetter(runner) THEN r
    ELSE [amps |-> "nil", err |-> ErrUnsupported]

GetStatevector(r) ==
    /\ sim # NoSim
    /\ phase # "panic"
    /\ svRunner' = IF IsStatevectorGetter(sim.runner) THEN r ELSE NoRet
    /\ svRet' = GetStatevectorOf(sim.runner, r)
    /\ UNCHANGED <<layoutVars, simVars, runVars>>

----------------------------------------------------------------------------
(* Properties of the simulator (specifications SpecNew and SpecSim).       *)

Constructed == sim # NoSim

ReturnedOk == phase = "returned" /\ runRet # NoRet /\ runRet.err = "nil"

RECURSIVE TotalOf(_, _)
TotalOf(h, keys) ==
    IF keys = {} THEN 0
    ELSE LET k == CHOOSE x \in keys : TRUE
         IN h[k] + TotalOf(h, keys \ {k})

\* C5: a histogram Run returns without error totals exactly Shots, and every
\* key has one character per classical bit of the circuit, each '0' or '1'.
C5_HistogramTotalAndKeys ==
    ReturnedOk =>
        /\ TotalOf(runRet.hist, DOMAIN runRet.hist) = sim.Shots
        /\ \A key \in DOMAIN runRet.hist :
               /\ DOMAIN key = 1 .. runClbits
               /\ \A i \in DOMAIN key : key[i] \in {"0", "1"}

\* Run returned a histogram of two different keys counted by two workers.
C5_Witness ==
    /\ ReturnedOk
    /\ sim.Workers = 2
    /\ Cardinality(DOMAIN runRet.hist) = 2
    /\ \A w \in DOMAIN local : local[w] # <<>>

\* C6: when a shot failed, Run returns the first shot error, unchanged, and
\* no histogram.
C6_FirstErrorNoHistogram ==
    (phase = "returned" /\ errLog # <<>>) =>
        /\ runRet.err = errLog[1]
        /\ runRet.hist = "nil"

\* Run returned after the shots of two workers failed with different errors.
C6_Witness ==
    /\ phase = "returned"
    /\ runRet # NoRet
    /\ Len(errLog) = 2
    /\ errLog[1] # errLog[2]

\* C7: two Runs of the same circuit with the same Shots return the same
\* histogram, whatever the worker counts. (SimulatorOptions and Simulator
\* hold no seed and RunOnce is given the circuit only, so every Run is a Run
\* under the same seed configuration.)
C7_SameHistogramEveryRun ==
    (ReturnedOk /\ prevRun # NoRet /\ prevRun.shots = runRet.shots) =>
        runRet.hist = prevRun.hist

\* C8: NewSimulator replaces Shots <= 0 by 1024 and keeps a positive Shots,
\* so Shots >= 1.
C8_ShotsDefaulted ==
    Constructed =>
        /\ opts.Shots <= 0 => sim.Shots = 1024
        /\ opts.Shots > 0 => sim.Shots = opts.Shots
        /\ sim.Shots >= 1

\* A simulator constructed from Shots = 0.
C8_Witness == Constructed /\ opts.Shots = 0 /\ sim.Shots = 1024

Min(a, b) == IF a < b THEN a ELSE b

\* C9: 1 <= Workers <= Shots; Workers is min(Shots, NumCPU) for an option
\* <= 0 and min(Shots, option) otherwise.
C9_WorkersCapped ==
    Constructed =>
        /\ 1 <= sim.Workers
        /\ sim.Workers <= sim.Shots
        /\ opts.Workers <= 0 => sim.Workers = Min(sim.Shots, numCPU)
        /\ opts.Workers > 0 => sim.Workers = Min(sim.Shots, opts.Workers)

\* A simulator whose defaulted Workers was capped: more CPUs than shots.
C9_Witness ==
    /\ Constructed
    /\ opts.Workers <= 0
    /\ numCPU > sim.Shots
    /\ sim.Workers = sim.Shots

\* C10: a GetStatevector call (a step that sets a new return value) returns
\* no amplitudes and the unsupported error when the runner is no
\* StatevectorGetter, returns what the runner's GetStatevector returned
\* otherwise, and leaves the shot loop as it is.
C10_GetStatevector ==
    [][(svRet' # svRet /\ svRet' # NoRet) =>
          /\ UNCHANGED runVars
          /\ IF sim.runner = "sv"
             THEN svRet' = svRunner'
             ELSE svRet' = [amps |-> "nil",
                            err |-> "runner does not support getting the state vector"]
      ]_vars

\* GetStatevector refused on a runner with RunOnce only, in the middle of a Run.
C10_Witness ==
    /\ Constructed
    /\ sim.runner = "plain"
    /\ svRet # NoRet
    /\ svRet.amps = "nil"
    /\ svRet.err = ErrUnsupported
    /\ phase = "running"
    /\ nextShot > 0

----------------------------------------------------------------------------
(* Properties of the workers of Run (specification SpecSim).               *)

\* The runner instance worker w calls RunOnce on: the Simulator holds one
\* backend reference, its field runner, and neither a factory nor a name to
\* create another from.
WorkerRunner(w) == [field |-> "Simulator.runner", instance |-> sim.runner]

\* C24: during Run no two workers execute RunOnce on the same runner
\* instance at the same time.
C24_RunnerConfinedToOneWorker ==
    (phase = "running") =>
        \A v, w \in DOMAIN pc :
            (v # w /\ pc[v] = "shot" /\ pc[w] = "shot") => WorkerRunner(v) # WorkerRunner(w)

\* C25: once a shot has failed or the run is cancelled no worker starts a
\* new shot; a shot in flight ends only by its outcome being counted or its
\* error being recorded; Run returns only when every worker has stopped.
C25_CancelStopsNewShots ==
    [][/\ (phase = "running" /\ phase' = "running" /\ (cancelled \/ errLog # <<>>)) =>
              \A w \in DOMAIN pc : pc'[w] = "shot" => pc[w] = "shot"
       /\ (phase = "running" /\ phase' = "running") =>
              \A w \in DOMAIN pc :
                  (pc[w] = "shot" /\ pc'[w] # "shot") =>
                      \/ pc'[w] = "ready" /\ local'[w] # local[w]
                      \/ pc'[w] = "done" /\ Len(errLog') = Len(errLog) + 1
       /\ (phase = "running" /\ phase' = "returned") =>
              \A w \in DOMAIN pc : pc[w] = "done"]_vars

\* A run of two shots has returned after its first shot failed: the second
\* shot was never started.
C25_Witness ==
    /\ phase = "returned"
    /\ cancelled
    /\ Len(errLog) = 1
    /\ nextShot = 1
    /\ sim.Shots = 2
    /\ sim.Workers = 2
    /\ \A w \in DOMAIN pc : pc[w] = "done"

----------------------------------------------------------------------------
(* Properties of the constructors (specification SpecCtor).                *)

ByName == ctor # NoRet /\ ctor.fn = "NewSimulatorWithRunner"

\* C11: NewSimulatorWithRunner with a name that is not registered returns no
\* Simulator and an error wrapping UnknownBackend; with a registered name it
\* returns, without error, a Simulator whose runner is the instance the
\* registry creates for that name.
C11_WithRunnerByRegistry ==
    ByName =>
        IF ctor.name \in {"itsu", "qsim"}
        THEN /\ sim # NoSim
             /\ ctor.err = "nil"
             /\ sim.runner = CreateRunner(ctor.name).runner
        ELSE /\ sim = NoSim
             /\ ctor.err # "nil"
             /\ ctor.wraps = "UnknownBackend"

\* A simulator constructed by name from options that carried another runner.
C11_Witness ==
    /\ ByName
    /\ ctor.name = "qsim"
    /\ sim # NoSim
    /\ opts.Runner = "plain"
    /\ sim.runner = "sv"

\* C12: a simulator is constructed only when exactly one of a backend name
\* and a direct backend instance was provided.
C12_ExactlyOneBackendSource ==
    Constructed =>
        LET named == ctor.fn = "NewSimulatorWithRunner"
            direct == opts.Runner # "nil"
        IN (named /\ ~direct) \/ (direct /\ ~named)

\* C13: the StateVector option is honoured: on a simulator constructed with
\* StateVector = true the shot loop of Run never takes a shot.
C13_StateVectorSkipsShotLoop ==
    (Constructed /\ opts.StateVector) => nextShot = 0

----------------------------------------------------------------------------
(* examples/deutsch-jozsa: the oracles and checkOracle of the test.        *)

\* The oracle types of applyOracle2Qubit (one input qubit) and of
\* applyOracle3Qubit (two input qubits).
OracleCases ==
    ({1} \X {"constant_0", "constant_1", "balanced_identity", "balanced_not"})
        \cup ({2} \X {"constant_0", "constant_1", "balanced_xor"})

\* The input strings of checkOracle: one character per input qubit.
InputStrings(n) == [1 .. n -> {"0", "1"}]

\* reverseString.
ReverseString(str) == [k \in 1 .. Len(str) |-> str[Len(str) + 1 - k]]

\* b.X(q), b.CNOT(c, t): the operation the builder appends.
GateX(q) == [G |-> "X", Qubits |-> <<q>>, Cbit |-> -1]
GateCNOT(c, t) == [G |-> "CNOT", Qubits |-> <<c, t>>, Cbit |-> -1]

\* Mutant of OracleGates: balanced_xor is controlled by qubit 0 only.
OracleGatesXorOneControl(nInput, oracleType) ==
    IF nInput = 1
    THEN IF oracleType = "constant_1" THEN <<GateX(1)>>
         ELSE IF oracleType = "balanced_identity" THEN <<GateCNOT(0, 1)>>
         ELSE IF oracleType = "balanced_not" THEN <<GateX(0), GateCNOT(0, 1), GateX(0)>>
         ELSE <<>>
    ELSE IF oracleType = "constant_1" THEN <<GateX(2)>>
         ELSE IF oracleType = "balanced_xor" THEN <<GateCNOT(0, 2)>>
         ELSE <<>>

\* applyOracle2Qubit (nInput = 1) and applyOracle3Qubit (nInput = 2): the
\* gates the switch appends, none for constant_0 and for a type it has no
\* case for.
OracleGates(nInput, oracleType) ==
    IF nInput = 1
    THEN IF oracleType = "constant_1" THEN <<GateX(1)>>
         ELSE IF oracleType = "balanced_identity" THEN <<GateCNOT(0, 1)>>
         ELSE IF oracleType = "balanced_not" THEN <<GateX(0), GateCNOT(0, 1), GateX(0)>>
         ELSE <<>>
    ELSE IF oracleType = "constant_1" THEN <<GateX(2)>>
         ELSE IF oracleType = "balanced_xor" THEN <<GateCNOT(0, 2), GateCNOT(1, 2)>>
         ELSE <<>>

RECURSIVE Pow2(_)
Pow2(n) == IF n = 0 THEN 1 ELSE 2 * Pow2(n - 1)

\* Bit q of the state index k (little-endian: qubit 0 is the lowest bit).
BitOf(k, q) == (k \div Pow2(q)) % 2

FlipBit(k, q) == IF BitOf(k, q) = 0 THEN k + Pow2(q) ELSE k - Pow2(q)

\* The amplitude array at the start: amplitude 1 at index 0.
InitialAmplitudes(nQubits) ==
    [k \in 0 .. (Pow2(nQubits) - 1) |-> IF k = 0 THEN 1 ELSE 0]

\* The kernels of X, H and CNOT on the amplitude array. The amplitudes are
\* kept as integers: the kernel of H leaves out the factor 1/sqrt(2), which
\* is the same for every amplitude and changes neither which amplitudes are
\* zero nor the ratio of the two probabilities of a measurement.
ApplyKernel(a, op) ==
    IF op.G = "X"
    THEN [k \in DOMAIN a |-> a[FlipBit(k, op.Qubits[1])]]
    ELSE IF op.G = "H"
    THEN [k \in DOMAIN a |->
             IF BitOf(k, op.Qubits[1]) = 0
             THEN a[k] + a[FlipBit(k, op.Qubits[1])]
             ELSE a[FlipBit(k, op.Qubits[1])] - a[k]]
    ELSE IF op.G = "CNOT"
    THEN [k \in DOMAIN a |->
             IF BitOf(k, op.Qubits[1]) = 1 THEN a[FlipBit(k, op.Qubits[2])] ELSE a[k]]
    ELSE a

RECURSIVE ApplyKernels(_, _)
ApplyKernels(a, ops) ==
    IF Len(ops) = 0 THEN a ELSE ApplyKernels(ApplyKernel(a, Head(ops)), Tail(ops))

\* The runner's GetStatevector: the operations of the circuit applied in the
\* order Operations() gives them.
RunnerStatevector(nQubits, ops) ==
    [amps |-> ApplyKernels(InitialAmplitudes(nQubits), ops), err |-> "nil"]

\* SimulatorOptions{}.
ZeroOptions == [Shots |-> 0, Workers |-> 0, Runner |-> "nil", StateVector |-> FALSE]

\* Test table entry: checkOracle(t, nInput, oracleFunc, input) is entered.
StartCheck(nInput, oracleType, input) ==
    /\ dj.pc \in {"idle", "done"}
    /\ input \in InputStrings(nInput)
    /\ dj' = [pc |-> "prepare", nInput |-> nInput, oracle |-> oracleType,
              input |-> input, i |-> 0, ops |-> <<>>, sv |-> [none |-> TRUE], out |-> ""]
    /\ UNCHANGED <<dagVars, circ, layout, got, sm, ex, simVars, runVars, svVars>>

\* Lines 23-28: one iteration of the loop over the reversed input, qubit i
\* getting an X for the character '1'; the loop ends after the last one.
PrepareStep ==
    /\ dj.pc = "prepare"
    /\ LET inputLE == ReverseString(dj.input)
       IN IF dj.i < Len(inputLE)
          THEN dj' = [dj EXCEPT !.i = dj.i + 1,
                                !.ops = IF inputLE[dj.i + 1] = "1"
                                        THEN Append(dj.ops, GateX(dj.i))
                                        ELSE dj.ops]
          ELSE dj' = [dj EXCEPT !.pc = "oracle"]
    /\ UNCHANGED <<dagVars, circ, layout, got, sm, ex, simVars, runVars, svVars>>

\* Line 31: oracleFunc(b).
ApplyOracle ==
    /\ dj.pc = "oracle"
    /\ dj' = [dj EXCEPT !.pc = "build",
                        !.ops = dj.ops \o OracleGates(dj.nInput, dj.oracle)]
    /\ UNCHANGED <<dagVars, circ, layout, got, sm, ex, simVars, runVars, svVars>>

\* Lines 33-41: BuildCircuit, NewSimulatorWithRunner("qsim") and
\* GetStatevector on the frozen circuit.
BuildAndGetStatevector ==
    /\ dj.pc = "build"
    /\ LET c == FromDAG(SecondDag(dj.ops)).circuit
           made == NewSimulatorWithRunnerOf("qsim", ZeroOptions)
       IN dj' = [dj EXCEPT
                    !.pc = "read",
                    !.sv = IF made.err # "nil" THEN [amps |-> "nil", err |-> made.err]
                           ELSE GetStatevectorOf(made.sim.runner,
                                    RunnerStatevector(dj.nInput + 1, Operations(c)))]
    /\ UNCHANGED <<dagVars, circ, layout, got, sm, ex, simVars, runVars, svVars>>

\* Lines 43-58: the indices of non-zero amplitude, and bit nInput of the one
\* found; the assertions fail the test otherwise.
ReadOutput ==
    /\ dj.pc = "read"
    /\ dj' = [dj EXCEPT
                 !.pc = "done",
                 !.out = IF dj.sv.err # "nil" THEN "failed"
                         ELSE LET nonZeroStates ==
                                      {k \in DOMAIN dj.sv.amps : dj.sv.amps[k] # 0}
                              IN IF Cardinality(nonZeroStates) # 1 THEN "failed"
                                 ELSE LET foundState == CHOOSE k \in nonZeroStates : TRUE
                                      IN IF BitOf(foundState, dj.nInput) = 1
                                         THEN "1" ELSE "0"]
    /\ UNCHANGED <<dagVars, circ, layout, got, sm, ex, simVars, runVars, svVars>>

\* The value of an input character.
BitValue(ch) == IF ch = "1" THEN 1 ELSE 0

\* f(x) of every oracle type, x1 being the first and x0 the last character
\* of the input.
ExpectedF(oracleType, input) ==
    LET x0 == BitValue(input[Len(input)])
        x1 == BitValue(input[1])
    IN IF oracleType = "constant_0" THEN 0
       ELSE IF oracleType = "constant_1" THEN 1
       ELSE IF oracleType = "balanced_identity" THEN x0
       ELSE IF oracleType = "balanced_not" THEN 1 - x0
       ELSE (x1 + x0) % 2

\* C20: for every oracle type and every basis input x, the state vector of
\* the circuit that prepares |x>|0> with X gates and applies the oracle has
\* exactly one non-zero amplitude, at an index whose bit nInput (the
\* ancilla) is f(x), and checkOracle returns f(x).
C20_OracleWritesFToAncilla ==
    dj.pc = "done" =>
        /\ dj.sv.err = "nil"
        /\ LET nonZero == {k \in DOMAIN dj.sv.amps : dj.sv.amps[k] # 0}
               f == ExpectedF(dj.oracle, dj.input)
           IN /\ Cardinality(nonZero) = 1
              /\ \A k \in nonZero : (k \div (2 ^ dj.nInput)) % 2 = f
              /\ dj.out = (IF f = 1 THEN "1" ELSE "0")

\* checkOracle returned 1 for balanced_xor on the input "10".
C20_Witness ==
    /\ dj.pc = "done"
    /\ dj.oracle = "balanced_xor"
    /\ dj.input = <<"1", "0">>
    /\ dj.out = "1"

----------------------------------------------------------------------------
(* examples/bernstein-vazirani: the oracles and checkOracle of the test.   *)

\* The input sizes of applyBVOracle2Qubit, 3Qubit and 4Qubit.
BVInputSizes == {1, 2, 3}

\* Mutant of BVOracleGates: character k of the hidden string controls qubit k.
BVOracleGatesSameOrder(nInput, hiddenString) ==
    LET cnot(k, q) == IF Len(hiddenString) >= k /\ hiddenString[k] = "1"
                      THEN <<GateCNOT(q, nInput)>> ELSE <<>>
    IN IF nInput = 1 THEN cnot(1, 0)
       ELSE IF nInput = 2 THEN cnot(1, 0) \o cnot(2, 1)
       ELSE cnot(1, 0) \o cnot(2, 1) \o cnot(3, 2)

\* applyBVOracle2Qubit, 3Qubit and 4Qubit (nInput = 1, 2, 3): a CNOT onto the
\* ancilla, qubit nInput, from qubit q when the character of the hidden
\* string tested for q is '1'. hiddenString[j] of the source is character
\* j + 1 here.
BVOracleGates(nInput, hiddenString) ==
    LET cnot(k, q) == IF Len(hiddenString) >= k /\ hiddenString[k] = "1"
                      THEN <<GateCNOT(q, nInput)>> ELSE <<>>
    IN IF nInput = 1 THEN cnot(1, 0)
       ELSE IF nInput = 2 THEN cnot(2, 0) \o cnot(1, 1)
       ELSE cnot(3, 0) \o cnot(2, 1) \o cnot(1, 2)

\* Test table entry: checkOracle is entered for the oracle of hiddenString.
StartCheckBV(nInput, hiddenString, input) ==
    /\ dj.pc \in {"idle", "done"}
    /\ hiddenString \in InputStrings(nInput)
    /\ input \in InputStrings(nInput)
    /\ dj' = [pc |-> "prepare", nInput |-> nInput, oracle |-> hiddenString,
              input |-> input, i |-> 0, ops |-> <<>>, sv |-> [none |-> TRUE], out |-> ""]
    /\ UNCHANGED <<dagVars, circ, layout, got, sm, ex, simVars, runVars, svVars>>

\* Line 31: oracleFunc(b), the oracle of the hidden string.
ApplyBVOracle ==
    /\ dj.pc = "oracle"
    /\ dj' = [dj EXCEPT !.pc = "build",
                        !.ops = dj.ops \o BVOracleGates(dj.nInput, dj.oracle)]
    /\ UNCHANGED <<dagVars, circ, layout, got, sm, ex, simVars, runVars, svVars>>

\* The inner product of two bit strings of one length, position by position.
RECURSIVE InnerProduct(_, _)
InnerProduct(a, b) ==
    IF Len(a) = 0 THEN 0
    ELSE BitValue(Head(a)) * BitValue(Head(b)) + InnerProduct(Tail(a), Tail(b))

\* C21: for every hidden string s of 1, 2 or 3 bits and every basis input x
\* of the same length, the state vector of the circuit that prepares |x>|0>
\* and applies the oracle of s has exactly one non-zero amplitude, at an
\* index whose ancilla bit is s.x mod 2, and checkOracle returns that bit.
C21_BVOracleWritesInnerProduct ==
    dj.pc = "done" =>
        /\ dj.sv.err = "nil"
        /\ LET nonZero == {k \in DOMAIN dj.sv.amps : dj.sv.amps[k] # 0}
               f == InnerProduct(dj.oracle, dj.input) % 2
           IN /\ Cardinality(nonZero) = 1
              /\ \A k \in nonZero : (k \div (2 ^ dj.nInput)) % 2 = f
              /\ dj.out = (IF f = 1 THEN "1" ELSE "0")

\* checkOracle returned 1 for the hidden string "01" on the input "11".
C21_Witness ==
    /\ dj.pc = "done"
    /\ dj.oracle = <<"0", "1">>
    /\ dj.input = <<"1", "1">>
    /\ dj.out = "1"

----------------------------------------------------------------------------
(* examples/simon: the oracles and checkOracleProperties of the test.      *)

\* The secret strings of TestApplySimonOracle2Qubit and 3Qubit.
SimonSecrets ==
    {<<"0", "0">>, <<"0", "1">>, <<"1", "0">>, <<"1", "1">>,
     <<"0", "0", "0">>, <<"1", "1", "0">>, <<"1", "0", "1">>, <<"0", "1", "1">>}

\* Mutant of SimonOracleGates: the oracle of "01" copies qubit 0.
SimonOracleGatesWrongControl(n, secretString) ==
    IF n = 2
    THEN IF secretString = <<"0", "0">> THEN <<GateCNOT(0, 2), GateCNOT(1, 3)>>
         ELSE IF secretString = <<"0", "1">> THEN <<GateCNOT(0, 2)>>
         ELSE IF secretString = <<"1", "0">> THEN <<GateCNOT(0, 2)>>
         ELSE IF secretString = <<"1", "1">> THEN <<GateCNOT(0, 2), GateCNOT(1, 2)>>
         ELSE <<>>
    ELSE IF secretString = <<"0", "0", "0">>
         THEN <<GateCNOT(0, 3), GateCNOT(1, 4), GateCNOT(2, 5)>>
         ELSE IF secretString = <<"1", "1", "0">>
         THEN <<GateCNOT(0, 3), GateCNOT(1, 4), GateCNOT(2, 4)>>
         ELSE IF secretString = <<"1", "0", "1">>
         THEN <<GateCNOT(0, 3), GateCNOT(2, 3), GateCNOT(1, 4)>>
         ELSE IF secretString = <<"0", "1", "1">>
         THEN <<GateCNOT(0, 3), GateCNOT(1, 3), GateCNOT(2, 5)>>
         ELSE <<>>

\* applySimonOracle2Qubit (n = 2) and applySimonOracle3Qubit (n = 3): the
\* gates the switch appends for the secret string.
SimonOracleGates(n, secretString) ==
    IF n = 2
    THEN IF secretString = <<"0", "0">> THEN <<GateCNOT(0, 2), GateCNOT(1, 3)>>
         ELSE IF secretString = <<"0", "1">> THEN <<GateCNOT(1, 2)>>
         ELSE IF secretString = <<"1", "0">> THEN <<GateCNOT(0, 2)>>
         ELSE IF secretString = <<"1", "1">> THEN <<GateCNOT(0, 2), GateCNOT(1, 2)>>
         ELSE <<>>
    ELSE IF secretString = <<"0", "0", "0">>
         THEN <<GateCNOT(0, 3), GateCNOT(1, 4), GateCNOT(2, 5)>>
         ELSE IF secretString = <<"1", "1", "0">>
         THEN <<GateCNOT(0, 3), GateCNOT(1, 4), GateCNOT(2, 4)>>
         ELSE IF secretString = <<"1", "0", "1">>
         THEN <<GateCNOT(0, 3), GateCNOT(2, 3), GateCNOT(1, 4)>>
         ELSE IF secretString = <<"0", "1", "1">>
         THEN <<GateCNOT(0, 3), GateCNOT(1, 3), GateCNOT(2, 5)>>
         ELSE <<>>

\* fmt.Sprintf("%0*b", n, v): the n binary digits of v, highest first.
FormatBinary(n, v) == [k \in 1 .. n |-> IF BitOf(v, n - k) = 1 THEN "1" ELSE "0"]

\* strconv.ParseInt(str, 2, ...).
RECURSIVE ParseBinary(_)
ParseBinary(str) ==
    IF Len(str) = 0 THEN 0
    ELSE 2 * ParseBinary(SubSeq(str, 1, Len(str) - 1)) + BitValue(str[Len(str)])

\* a ^ b on integers of w bits.
RECURSIVE XorInt(_, _, _)
XorInt(a, b, w) ==
    IF w = 0 THEN 0
    ELSE (((a % 2) + (b % 2)) % 2) + 2 * XorInt(a \div 2, b \div 2, w - 1)

\* Lines 321-325: X on qubit i for input[n-1-i] = '1', i = 0 .. n-1; that
\* character is character n - i here.
RECURSIVE SimonPrepare(_, _, _)
SimonPrepare(n, input, i) ==
    IF i >= n THEN <<>>
    ELSE (IF input[n - i] = "1" THEN <<GateX(i)>> ELSE <<>>) \o SimonPrepare(n, input, i + 1)

\* Lines 358-363: inputIntLE_prepared.
RECURSIVE PreparedInt(_, _, _)
PreparedInt(n, input, i) ==
    IF i >= n THEN 0
    ELSE (IF input[n - i] = "1" THEN Pow2(i) ELSE 0) + PreparedInt(n, input, i + 1)

\* Lines 346-382 of getOracleOutput on the state vector sv: the output
\* string, highest bit first, or an error.
OracleOutputOf(n, input, sv) ==
    IF sv.err # "nil" THEN [out |-> "", err |-> "Failed to get statevector"]
    ELSE LET nonZeroStates == {k \in DOMAIN sv.amps : sv.amps[k] # 0}
         IN IF Cardinality(nonZeroStates) # 1
            THEN [out |-> "", err |-> "expected one non-zero amplitude"]
            ELSE LET foundState == CHOOSE k \in nonZeroStates : TRUE
                     outputIntLE == foundState \div Pow2(n)
                 IN IF foundState % Pow2(n) # PreparedInt(n, input, 0)
                    THEN [out |-> "", err |-> "input state changed by oracle"]
                    ELSE [out |-> [k \in 1 .. n |->
                                      IF BitOf(outputIntLE, n - k) = 1 THEN "1" ELSE "0"],
                          err |-> "nil"]

\* Lines 402-420: whether every assertion of checkOracleProperties holds.
AssertionsHold(n, secretString, outputs) ==
    LET s == ParseBinary(secretString)
        numInputs == Pow2(n)
    IN IF s = 0
       THEN \A a, b \in DOMAIN outputs : a # b => outputs[a] # outputs[b]
       ELSE \A i \in 0 .. (numInputs - 1) :
                outputs[FormatBinary(n, i)] = outputs[FormatBinary(n, XorInt(i, s, n))]

\* TestApplySimonOracle2Qubit / 3Qubit: checkOracleProperties is entered.
StartProperties(secretString) ==
    /\ sm.pc \in {"idle", "done", "fatal"}
    /\ sm' = [pc |-> "input", n |-> Len(secretString), secret |-> secretString,
              i |-> 0, ops |-> <<>>, sv |-> [none |-> TRUE], outputs |-> <<>>,
              states |-> <<>>, verdict |-> ""]
    /\ UNCHANGED <<dagVars, circ, layout, got, dj, ex, simVars, runVars, svVars>>

\* Lines 393-394 and 317-325: the next input of the loop is formatted and
\* getOracleOutput prepares it; after the last input the loop is left.
NextInput ==
    /\ sm.pc = "input"
    /\ IF sm.i < Pow2(sm.n)
       THEN sm' = [sm EXCEPT !.pc = "oracle",
                             !.ops = SimonPrepare(sm.n, FormatBinary(sm.n, sm.i), 0)]
       ELSE sm' = [sm EXCEPT !.pc = "check"]
    /\ UNCHANGED <<dagVars, circ, layout, got, dj, ex, simVars, runVars, svVars>>

\* Line 328: oracle(b).
ApplySimonOracle ==
    /\ sm.pc = "oracle"
    /\ sm' = [sm EXCEPT !.pc = "sv",
                        !.ops = sm.ops \o SimonOracleGates(sm.n, sm.secret)]
    /\ UNCHANGED <<dagVars, circ, layout, got, dj, ex, simVars, runVars, svVars>>

\* Lines 330-344: BuildCircuit, NewSimulatorWithRunner("qsim"), GetStatevector.
SimonGetStatevector ==
    /\ sm.pc = "sv"
    /\ LET c == FromDAG(SecondDag(sm.ops)).circuit
           made == NewSimulatorWithRunnerOf("qsim", ZeroOptions)
       IN sm' = [sm EXCEPT
                    !.pc = "read",
                    !.sv = IF made.err # "nil" THEN [amps |-> "nil", err |-> made.err]
                           ELSE GetStatevectorOf(made.sim.runner,
                                    RunnerStatevector(2 * sm.n, Operations(c)))]
    /\ UNCHANGED <<dagVars, circ, layout, got, dj, ex, simVars, runVars, svVars>>

\* Lines 346-382 and 395-399: getOracleOutput returns; an error ends the
\* test, an output is stored under the input. states keeps the indices of
\* non-zero amplitude the output was read from.
StoreOutput ==
    /\ sm.pc = "read"
    /\ LET input == FormatBinary(sm.n, sm.i)
           ret == OracleOutputOf(sm.n, input, sm.sv)
       IN IF ret.err # "nil"
          THEN sm' = [sm EXCEPT !.pc = "fatal", !.verdict = ret.err]
          ELSE sm' = [sm EXCEPT
                         !.pc = "input",
                         !.i = sm.i + 1,
                         !.outputs = [x \in (DOMAIN sm.outputs) \cup {input} |->
                                         IF x = input THEN ret.out ELSE sm.outputs[x]],
                         !.states = [x \in (DOMAIN sm.states) \cup {input} |->
                                        IF x = input
                                        THEN {k \in DOMAIN sm.sv.amps : sm.sv.amps[k] # 0}
                                        ELSE sm.states[x]]]
    /\ UNCHANGED <<dagVars, circ, layout, got, dj, ex, simVars, runVars, svVars>>

\* Lines 402-420: the assertions on the collected outputs.
CheckProperties ==
    /\ sm.pc = "check"
    /\ sm' = [sm EXCEPT !.pc = "done",
                        !.verdict = IF AssertionsHold(sm.n, sm.secret, sm.outputs)
                                    THEN "pass" ELSE "fail"]
    /\ UNCHANGED <<dagVars, circ, layout, got, dj, ex, simVars, runVars, svVars>>

\* x XOR s on bit strings of one length, character by character.
XorString(x, s) == [k \in 1 .. Len(x) |-> IF x[k] = s[k] THEN "0" ELSE "1"]

\* C22: for every Simon oracle of the example and every basis input x, the
\* state vector has exactly one non-zero amplitude and its low n bits are x
\* as loaded (last character on qubit 0); for a secret s other than zero
\* f(x) = f(x XOR s) for every x, and for s = 0 f is one-to-one; the test
\* passes.
C22_SimonOracleProperties ==
    (sm.pc \in {"done", "fatal"}) =>
        /\ sm.verdict = "pass"
        /\ DOMAIN sm.outputs = InputStrings(sm.n)
        /\ \A x \in InputStrings(sm.n) :
               /\ Cardinality(sm.states[x]) = 1
               /\ \A k \in sm.states[x] :
                      \A q \in 0 .. (sm.n - 1) : BitOf(k, q) = BitValue(x[sm.n - q])
               /\ IF \E j \in 1 .. sm.n : sm.secret[j] = "1"
                  THEN sm.outputs[x] = sm.outputs[XorString(x, sm.secret)]
                  ELSE \A y \in InputStrings(sm.n) :
                           y # x => sm.outputs[y] # sm.outputs[x]

\* The test of the secret "110" is done, with f("001") other than f("000").
C22_Witness ==
    /\ sm.pc = "done"
    /\ sm.secret = <<"1", "1", "0">>
    /\ sm.outputs[<<"0", "0", "1">>] # sm.outputs[<<"0", "0", "0">>]
    /\ sm.outputs[<<"1", "1", "1">>] = sm.outputs[<<"0", "0", "1">>]

----------------------------------------------------------------------------
(* examples: the algorithm functions, which build a circuit, run its shots *)
(* and analyse the histogram.                                              *)

\* Shots of an example run.
ExampleShots == 2

\* b.H(q), b.Measure(q, c): the operation the builder appends.
GateH(q) == [G |-> "H", Qubits |-> <<q>>, Cbit |-> -1]
GateMeasure(q, c) == [G |-> "MEASURE", Qubits |-> <<q>>, Cbit |-> c]

\* b.H(0).H(1)...H(n-1) and b.Measure(0, 0)...Measure(n-1, n-1).
HadamardOn(n) == [q \in 1 .. n |-> GateH(q - 1)]
MeasureAll(n) == [q \in 1 .. n |-> GateMeasure(q - 1, q - 1)]

\* The appends of bernsteinVazirani4Qubit, in program order.
BV4Gates(hiddenString) ==
    <<GateX(3)>> \o HadamardOn(4) \o BVOracleGates(3, hiddenString)
        \o HadamardOn(3) \o MeasureAll(3)

\* The appends of simonAlgorithm2Qubit (n = 2) and simonAlgorithm3Qubit
\* (n = 3), in program order.
SimonGates(n, secretString) ==
    HadamardOn(n) \o SimonOracleGates(n, secretString) \o HadamardOn(n) \o MeasureAll(n)

\* SimulatorOptions{Shots: shots}.
ShotsOptions(shots) ==
    [Shots |-> shots, Workers |-> 0, Runner |-> "nil", StateVector |-> FALSE]

\* Measurement, steps 1-3: the outcomes of probability other than zero.
MeasureOutcomes(a, q) == {b \in {0, 1} : \E k \in DOMAIN a : BitOf(k, q) = b /\ a[k] # 0}

\* Measurement, step 4: the amplitudes inconsistent with b are zeroed (the
\* common rescaling is left out as in the kernel of H).
Project(a, q, b) == [k \in DOMAIN a |-> IF BitOf(k, q) = b THEN a[k] ELSE 0]

\* Mutant of OutcomeString: the last classical bit comes first.
OutcomeStringLastFirst(creg) ==
    [i \in 1 .. Len(creg) |-> IF creg[Len(creg) + 1 - i] = 1 THEN "1" ELSE "0"]

\* The outcome string of a shot: position 0 is classical bit 0. creg[i] is
\* classical bit i - 1 and character i of the result is position i - 1.
OutcomeString(creg) == [i \in 1 .. Len(creg) |-> IF creg[i] = 1 THEN "1" ELSE "0"]

\* hist[key]++ on a Go map.
Increment(hist, key) ==
    [x \in (DOMAIN hist) \cup {key} |->
        IF x = key THEN (IF key \in DOMAIN hist THEN hist[key] + 1 ELSE 1) ELSE hist[x]]

\* The algorithm function up to sim.Run: builder appends, BuildCircuit,
\* NewSimulatorWithRunner("qsim", SimulatorOptions{Shots: shots}).
StartExample(alg, n, secretString, gates) ==
    /\ ex.pc \in {"idle", "done"}
    /\ LET made == NewSimulatorWithRunnerOf("qsim", ShotsOptions(ExampleShots))
       IN ex' = [pc |-> IF made.err = "nil" THEN "run" ELSE "done",
                 alg |-> alg, n |-> n, secret |-> secretString,
                 ops |-> Operations(FromDAG(SecondDag(gates)).circuit),
                 shots |-> IF made.err = "nil" THEN made.sim.Shots ELSE 0,
                 done |-> 0, k |-> 0, amps |-> <<>>, creg |-> <<>>,
                 hist |-> <<>>, expected |-> {}, verdict |-> ""]
    /\ UNCHANGED <<dagVars, circ, layout, got, dj, sm, simVars, runVars, svVars>>

\* bernsteinVazirani4Qubit(shots, hiddenString), lines 149-176.
StartBV4(hiddenString) == StartExample("bv4", 3, hiddenString, BV4Gates(hiddenString))

\* simonAlgorithm2Qubit / simonAlgorithm3Qubit(shots, secretString).
StartSimon(secretString) ==
    StartExample("simon", Len(secretString), secretString,
                 SimonGates(Len(secretString), secretString))

\* sim.Run: RunOnce of the next shot begins on the state |0...0> and a
\* classical register of zeros. The shots are taken one after the other:
\* the keys of the histogram do not depend on which worker ran a shot.
BeginShot ==
    /\ ex.pc = "run"
    /\ ex.done < ex.shots
    /\ ex' = [ex EXCEPT !.pc = "shot", !.k = 1,
                        !.amps = InitialAmplitudes(IF ex.alg = "bv4" THEN 4 ELSE 2 * ex.n),
                        !.creg = [c \in 1 .. ex.n |-> 0]]
    /\ UNCHANGED <<dagVars, circ, layout, got, dj, sm, simVars, runVars, svVars>>

\* RunOnce: the next operation in layout order is applied; a measurement
\* draws its outcome, projects and writes the classical bit.
ApplyOperation ==
    /\ ex.pc = "shot"
    /\ ex.k <= Len(ex.ops)
    /\ LET op == ex.ops[ex.k]
       IN IF op.G = "MEASURE"
          THEN \E b \in MeasureOutcomes(ex.amps, op.Qubits[1]) :
                  ex' = [ex EXCEPT !.k = ex.k + 1,
                                   !.amps = Project(ex.amps, op.Qubits[1], b),
                                   !.creg = [ex.creg EXCEPT ![op.Cbit + 1] = b]]
          ELSE ex' = [ex EXCEPT !.k = ex.k + 1, !.amps = ApplyKernel(ex.amps, op)]
    /\ UNCHANGED <<dagVars, circ, layout, got, dj, sm, simVars, runVars, svVars>>

\* RunOnce returns the outcome string and the scheduler counts it.
EndShot ==
    /\ ex.pc = "shot"
    /\ ex.k > Len(ex.ops)
    /\ ex' = [ex EXCEPT !.pc = "run", !.done = ex.done + 1,
                        !.hist = Increment(ex.hist, OutcomeString(ex.creg))]
    /\ UNCHANGED <<dagVars, circ, layout, got, dj, sm, simVars, runVars, svVars>>

\* analyzeBVResults4Qubit, lines 276-281: count > int(float64(shots)*0.9).
AnalyzeBVResults ==
    /\ ex.pc = "run"
    /\ ex.alg = "bv4"
    /\ ex.done = ex.shots
    /\ LET expectedResult == ReverseString(ex.secret)
       IN ex' = [ex EXCEPT
                    !.pc = "done",
                    !.expected = {expectedResult},
                    !.verdict = IF /\ expectedResult \in DOMAIN ex.hist
                                   /\ ex.hist[expectedResult] > (ex.shots * 9) \div 10
                                THEN "found" ELSE "failed"]
    /\ UNCHANGED <<dagVars, circ, layout, got, dj, sm, simVars, runVars, svVars>>

\* C23: in the 4-qubit Bernstein-Vazirani run every shot's outcome string is
\* the reverse of the hidden string, for every hidden string of three bits;
\* for "101" it is "101".
C23_BVOutcomeIsReversedHiddenString ==
    (ex.alg = "bv4") =>
        /\ \A key \in DOMAIN ex.hist :
               /\ key = ReverseString(ex.secret)
               /\ ex.secret = <<"1", "0", "1">> => key = <<"1", "0", "1">>
        /\ ex.pc = "done" => ex.verdict = "found"

\* The run of the hidden string "110" has counted every shot under "011".
C23_Witness ==
    /\ ex.alg = "bv4"
    /\ ex.pc = "done"
    /\ ex.secret = <<"1", "1", "0">>
    /\ DOMAIN ex.hist = {<<"0", "1", "1">>}
    /\ ex.hist[<<"0", "1", "1">>] = ex.shots
    /\ ex.shots > 0

\* analyzeSimonResults, lines 127-136: the strings y_str of n binary digits
\* whose dot product with secretString, taken character by character, is even.
ExpectedStates(n, secretString) ==
    {y_str \in {FormatBinary(n, i) : i \in 0 .. (Pow2(n) - 1)} :
        Cardinality({j \in 1 .. n : y_str[j] = "1" /\ secretString[j] = "1"}) % 2 = 0}

\* analyzeSimonResults.
AnalyzeSimonResults ==
    /\ ex.pc = "run"
    /\ ex.alg = "simon"
    /\ ex.done = ex.shots
    /\ IF ParseBinary(ex.secret) = 0
       THEN ex' = [ex EXCEPT !.pc = "done", !.verdict = "one-to-one"]
       ELSE ex' = [ex EXCEPT !.pc = "done", !.verdict = "secret",
                             !.expected = ExpectedStates(ex.n, ex.secret)]
    /\ UNCHANGED <<dagVars, circ, layout, got, dj, sm, simVars, runVars, svVars>>

\* C27: for every Simon secret other than zero, every key of the histogram
\* of the run is among the expected states analyzeSimonResults computes.
C27_SimonKeysAreExpected ==
    (ex.alg = "simon" /\ ex.pc = "done" /\ ex.verdict = "secret") =>
        \A key \in DOMAIN ex.hist : key \in ex.expected

----------------------------------------------------------------------------
(* Specifications.                                                         *)

InitDag ==
    /\ dagNodes = <<>>
    /\ appendRet = [none |-> TRUE]
    /\ lastQ = [q \in QubitIdx |-> 0]
    /\ lastC = [b \in ClbitIdx |-> 0]
    /\ circ = NoCircuit
    /\ layout = [nodes |-> <<>>, nodeTimeStep |-> <<>>]
    /\ got = [held |-> FALSE, ops |-> <<>>]
    /\ dj = [pc |-> "idle", nInput |-> 0, oracle |-> "", input |-> <<>>, i |-> 0,
             ops |-> <<>>, sv |-> [none |-> TRUE], out |-> ""]
    /\ sm = [pc |-> "idle", n |-> 0, secret |-> <<>>, i |-> 0, ops |-> <<>>,
             sv |-> [none |-> TRUE], outputs |-> <<>>, states |-> <<>>,
             verdict |-> ""]
    /\ ex = [pc |-> "idle", alg |-> "", n |-> 0, secret |-> <<>>, ops |-> <<>>,
             shots |-> 0, done |-> 0, k |-> 0, amps |-> <<>>, creg |-> <<>>,
             hist |-> <<>>, expected |-> {}, verdict |-> ""]

InitRun ==
    /\ opts = NoSim
    /\ sim = NoSim
    /\ ctor = NoRet
    /\ phase = "idle"
    /\ nextShot = 0
    /\ cancelled = FALSE
    /\ pc = <<>>
    /\ local = <<>>
    /\ errLog = <<>>
    /\ firstErr = "nil"
    /\ runRet = NoRet
    /\ prevRun = NoRet
    /\ svRunner = NoRet
    /\ svRet = NoRet

Init ==
    /\ InitDag
    /\ InitRun
    /\ numCPU = 1
    /\ runClbits = 0

Next ==
    \/ \E a \in AcceptedInputs : AddNode(a[1], a[2], a[3])
    \/ Freeze

Spec == Init /\ [][Next]_vars

\* Appends, well-formed and malformed, to one DAG.
NextAppend ==
    \/ \E a \in AcceptedInputs : AddNodeTried(a[1], a[2], a[3])
    \/ \E a \in RejectedInputs : RejectNodeTried(a[1], a[2], a[3])

SpecAppend == Init /\ [][NextAppend]_vars

\* One circuit frozen from the DAG, with a caller that reads its operations
\* and writes to what it was given while the builder appends on.
NextCaller ==
    \/ \E a \in AcceptedInputs : AddNode(a[1], a[2], a[3])
    \/ FreezeOnce
    \/ CallOperations
    \/ \E k \in 1 .. MaxNodes, q \in QubitIdx : ReplaceItem(k, q)
    \/ \E k \in 1 .. MaxNodes, j \in 1 .. 2, v \in QubitIdx : SetOperand(k, j, v)

SpecCaller == Init /\ [][NextCaller]_vars

InitSim ==
    /\ InitDag
    /\ InitRun
    /\ numCPU \in 1 .. MaxCPU
    /\ runClbits \in 0 .. NClbits

NextNew ==
    \E o \in OptionInputs : NewSimulator(o)

SpecNew == InitSim /\ [][NextNew]_vars

NextCtor ==
    \/ \E o \in OptionInputs : NewSimulator(o)
    \/ \E n \in NameInputs, o \in OptionInputs : NewSimulatorWithRunner(n, o)

SpecCtor == InitSim /\ [][NextCtor]_vars

NextSim ==
    \/ \E o \in RunOptionInputs : NewSimulator(o)
    \/ Run
    \/ \E w \in 1 .. MaxShots : WorkerPull(w)
    \/ \E w \in 1 .. MaxShots, key \in OutcomeInputs : ShotOk(w, key)
    \/ \E w \in 1 .. MaxShots, e \in ShotErrors : ShotFail(w, e)
    \/ \E w \in 1 .. MaxShots : ShotNil(w)
    \/ RunReturn

SpecSim == InitSim /\ [][NextSim]_vars

\* SpecSim with a caller that compares the histograms of two Runs.
NextRuns ==
    \/ NextSim
    \/ KeepHistogram

SpecRuns == InitSim /\ [][NextRuns]_vars

\* SpecSim with a caller that asks for the state vector at any time.
NextSv ==
    \/ NextSim
    \/ \E r \in GetterReturns : GetStatevector(r)

SpecSv == InitSim /\ [][NextSv]_vars

\* The test table of TestDeutschJozsaOracles run through checkOracle.
NextOracle ==
    \/ \E oc \in OracleCases, input \in InputStrings(1) \cup InputStrings(2) :
           StartCheck(oc[1], oc[2], input)
    \/ PrepareStep
    \/ ApplyOracle
    \/ BuildAndGetStatevector
    \/ ReadOutput

SpecOracle == Init /\ [][NextOracle]_vars

\* The test table of TestBernsteinVaziraniOracles, for every hidden string
\* and input, run through checkOracle.
NextBV ==
    \/ \E n \in BVInputSizes :
           \E hs \in InputStrings(n), input \in InputStrings(n) : StartCheckBV(n, hs, input)
    \/ PrepareStep
    \/ ApplyBVOracle
    \/ BuildAndGetStatevector
    \/ ReadOutput

SpecBV == Init /\ [][NextBV]_vars

\* TestApplySimonOracle2Qubit and TestApplySimonOracle3Qubit.
NextSimon ==
    \/ \E secretString \in SimonSecrets : StartProperties(secretString)
    \/ NextInput
    \/ ApplySimonOracle
    \/ SimonGetStatevector
    \/ StoreOutput
    \/ CheckProperties

SpecSimon == Init /\ [][NextSimon]_vars

\* bernsteinVazirani4Qubit for every hidden string of three bits.
NextBV4 ==
    \/ \E hiddenString \in InputStrings(3) : StartBV4(hiddenString)
    \/ BeginShot
    \/ ApplyOperation
    \/ EndShot
    \/ AnalyzeBVResults

SpecBV4 == Init /\ [][NextBV4]_vars

\* simonAlgorithm2Qubit and simonAlgorithm3Qubit for the secrets of simonDemo.
NextSimonRun ==
    \/ \E secretString \in SimonSecrets : StartSimon(secretString)
    \/ BeginShot
    \/ ApplyOperation
    \/ EndShot
    \/ AnalyzeSimonResults

SpecSimonRun == Init /\ [][NextSimonRun]_vars

\* SpecSv with simulators constructed with StateVector = true as well.
NextMode ==
    \/ NextSv
    \/ \E o \in StateVectorOptionInputs : NewSimulator(o)

SpecMode == InitSim /\ [][NextMode]_vars

====
